---- MODULE Spec2Model ----
(***************************************************************************)
(* Model of the incremental build cache of broccoli-es6-module-transpiler  *)
(* (src/index.js): CompileModules.write, compileAndCacheModules,           *)
(* copyFromCache, CacheResolver and CachedModule.                          *)
(*                                                                         *)
(* The es6-module-transpiler Container/FileResolver, walk-sync, mkdirp and *)
(* broccoli-kitchen-sink-helpers are the environment; the comments at each *)
(* definition say what is assumed of them.                                 *)
(***************************************************************************)
EXTENDS Integers, Sequences, FiniteSets, TLC

\* ------------------------------------------------------------------ bounds
\* Number of distinct stat fingerprints (mode, size, mtime) a file can have.
MaxStamp == 2
\* Cap on _cacheIndex, i.e. on the number of compile passes of one instance.
MaxIndex == 3
\* Cap on the number of changes made to the source tree between builds.
MaxEdits == 2

\* ------------------------------------------------------------------- paths
\* A path string is a sequence of segments; a segment is a base name and
\* the dot-separated suffixes that follow it ("a.js.map" is name "a",
\* exts <<"js","map">>).  The empty segment is what follows a trailing "/".
Seg(n, e) == [name |-> n, exts |-> e]
EmptySeg == Seg("", <<>>)
DotSeg == Seg(".", <<>>)
Js(n) == Seg(n, <<"js">>)
Plain(n) == Seg(n, <<>>)

\* Drop the trailing "/" of a path string.
StripSlash(p) ==
  IF Len(p) > 0 /\ p[Len(p)] = EmptySeg THEN SubSeq(p, 1, Len(p) - 1) ELSE p

\* relPath.charAt(relPath.length - 1) === '/'
EndsWithSlash(p) == Len(p) > 0 /\ p[Len(p)] = EmptySeg

\* path.extname: the last suffix of the last segment, trailing separators
\* ignored; a name that is only one suffix (".js") has no extension.
ExtName(p) ==
  LET q == StripSlash(p) IN
  IF Len(q) = 0 THEN ""
  ELSE LET s == q[Len(q)] IN
       IF Len(s.exts) = 0 \/ (s.name = "" /\ Len(s.exts) = 1) THEN ""
       ELSE s.exts[Len(s.exts)]

\* path.basename
BaseName(p) ==
  LET q == StripSlash(p) IN IF Len(q) = 0 THEN <<>> ELSE <<q[Len(q)]>>

\* path.dirname
DirName(p) ==
  LET q == StripSlash(p) IN IF Len(q) = 0 THEN <<>> ELSE SubSeq(q, 1, Len(q) - 1)

\* path.normalize as path.join applies it: "." segments vanish, a trailing
\* separator is kept.
RECURSIVE Normalize(_)
Normalize(p) ==
  IF Len(p) = 0 THEN <<>>
  ELSE IF Head(p) = DotSeg THEN Normalize(Tail(p))
  ELSE IF Head(p) = EmptySeg /\ Len(p) > 1 THEN Normalize(Tail(p))
  ELSE <<Head(p)>> \o Normalize(Tail(p))

\* path.join
Join(a, b) == Normalize(a \o b)

\* The ".." segment.
UpSeg == Seg("..", <<>>)

\* A ".." segment removes the segment before it.
RECURSIVE Collapse(_, _)
Collapse(p, acc) ==
  IF Len(p) = 0 THEN acc
  ELSE IF Head(p) = UpSeg
  THEN Collapse(Tail(p), IF Len(acc) > 0 THEN SubSeq(acc, 1, Len(acc) - 1) ELSE acc)
  ELSE Collapse(Tail(p), Append(acc, Head(p)))

\* path.resolve(from, to) for a relative `to`: joined, ".." segments
\* resolved, no trailing separator.
Resolve(from, to) == Collapse(StripSlash(Join(from, to)), <<>>)

IsPrefix(a, p) == Len(a) <= Len(p) /\ SubSeq(p, 1, Len(a)) = a

\* path.relative(from, to) for a `to` below `from`.
Relative(from, to) ==
  LET f == StripSlash(from)
      t == StripSlash(to) IN
  IF IsPrefix(f, t) THEN SubSeq(t, Len(f) + 1, Len(t)) ELSE t

\* relPath + '.map'
AddMap(p) ==
  LET q == p[Len(p)] IN
  [p EXCEPT ![Len(p)] = Seg(q.name, Append(q.exts, "map"))]

\* ------------------------------------------------------------- source tree
\* The directory readTree() resolves the input tree to.
SrcDir == <<Plain("src")>>

A_JS == <<Js("a")>>
ACC_DIR == <<Js("accounting"), EmptySeg>>
ACC_JS == <<Js("accounting"), Js("accounting")>>
FOO_DIR == <<Plain("foo"), EmptySeg>>
BAR_JS == <<Plain("foo"), Js("bar")>>
NOTES == <<Plain("foo"), Seg("notes", <<"txt">>)>>

\* The files the source tree may hold.
Files == {A_JS, ACC_JS, BAR_JS, NOTES}

\* The module files among them; the text file stays, and is only modified.
Modules == {f \in Files : ExtName(f) = "js"}

\* walkSync(srcDir) lists every entry once, sorted, a directory (with a
\* trailing "/") before its contents.
WalkOrder == <<A_JS, ACC_DIR, ACC_JS, FOO_DIR, BAR_JS, NOTES>>

\* A tree maps each file to its stat fingerprint, 0 when the file is absent.
\* A symbolic link to a file of fingerprint s is -s: the link's own lstat is
\* not the stat of what it points to.
Present(tree, f) == f \in Files /\ tree[f] # 0

IsDirIn(tree, d) ==
  \E f \in Files : Present(tree, f) /\ Len(f) > Len(StripSlash(d))
                   /\ IsPrefix(StripSlash(d), f)

Exists(tree, p) == Present(tree, StripSlash(p)) \/ IsDirIn(tree, p)

walkSync(tree) ==
  SelectSeq(WalkOrder,
            LAMBDA e : IF EndsWithSlash(e) THEN IsDirIn(tree, e) ELSE Present(tree, e))

\* What module a module file imports: a.js has `import ... from "./foo/bar"`.
ImportsOf(rel) ==
  IF rel = A_JS THEN <<(<<DotSeg, Plain("foo"), Plain("bar")>>)>> ELSE <<>>

\* ------------------------------------------------------------------ hashing
\* helpers.hashTree(path): a digest of the stat fingerprint of a file, and of
\* the fingerprints of everything below a directory.  A digest is a sequence
\* of numbers; a directory's starts with 0, no file's does.  A path that
\* cannot be stat'ed hashes like an empty directory ("stat failed").
\* hashFile is hashTree itself: the wrapper that replaced a symbolic link by
\* its real path before hashing is commented out, and its comment says that
\* without it a new link counts as a changed file.
RECURSIVE DirDigest(_, _, _)
DirDigest(tree, d, order) ==
  IF Len(order) = 0 THEN <<>>
  ELSE LET e == Head(order) IN
       (IF ~EndsWithSlash(e) /\ Present(tree, e) /\ Len(e) > Len(d) /\ IsPrefix(d, e)
        THEN <<tree[e]>> ELSE <<>>) \o DirDigest(tree, d, Tail(order))

hashFile(tree, abs) ==
  LET rel == Relative(SrcDir, abs) IN
  IF Present(tree, rel) THEN <<tree[rel]>>
  ELSE <<0>> \o DirDigest(tree, StripSlash(rel), WalkOrder)

\* write()'s hash(filePaths): the digests joined with ",".  A joined string is
\* the sequence of its digests: the join of one digest is that digest, the
\* join of none is the empty string.
RECURSIVE hash(_, _)
hash(tree, filePaths) ==
  IF Len(filePaths) = 0 THEN <<>>
  ELSE <<hashFile(tree, Join(SrcDir, Head(filePaths)))>> \o hash(tree, Tail(filePaths))

\* -------------------------------------------------------------------- state
VARIABLES
  output,       \* this.output, the configured `output` option
  cache,        \* this._cache: key -> cache entry
  cacheIndex,   \* this._cacheIndex
  tmpCacheDir,  \* quick-temp's this.tmpCacheDir: n the n-th one made, 0 or -n unset
  srcTree,      \* the source tree on disk
  scratch,      \* the files below the cache directory
  dest,         \* the files the latest build wrote into its destination
  last,         \* what the latest write() did (observation only)
  edits,        \* number of source changes made so far
  resolution    \* the latest CacheResolver resolvePath call: arguments and result

vars == <<output, cache, cacheIndex, tmpCacheDir, srcTree, scratch, dest, last, edits,
          resolution>>

\* The values of the `output` option: the default ".", a bundle file, and a
\* bundle file named like a module of the source tree.
Outputs == {<<DotSeg>>, <<Js("app")>>, A_JS}

\* The destination directory broccoli-writer hands to write(): a fresh
\* quick-temp directory, whose name ends in ".tmp".
TmpDestDir == <<Plain("tmp"), Seg("dest", <<"tmp">>)>>

\* Destination directories a direct caller of write() may pass.
DestDirs == {TmpDestDir, <<Js("dest")>>}

\* README.md: a formatter that writes one file per module is configured with
\* a directory as `output`, the bundle formatter with a file path.
FormatterIsBundle == ExtName(output) = "js"

\* A file on disk: its path and what it was made from, a set of
\* <<source path, fingerprint>> pairs.
File(p, k, from) == [path |-> p, kind |-> k, from |-> from]

FileAt(fs, p) == {f \in fs : f.path = p}
IsFileIn(fs, p) == FileAt(fs, p) # {}
IsDirOf(fs, p) == \E f \in fs : Len(f.path) > Len(p) /\ IsPrefix(p, f.path)

\* Writing a file replaces what was at its path.
Put(fs, f) == (fs \ FileAt(fs, f.path)) \cup {f}

\* quickTemp.makeOrReuse(this, 'tmpCacheDir'): the directory in use, or a new
\* one.  tmpCacheDir is n while the n-th directory made is in use, and -n
\* once quickTemp.remove() has removed it.
CacheRoot(n) == <<Plain("tmp"), Plain(ToString(n))>>
getCacheDir(t) == IF t <= 0 THEN 1 - t ELSE t

\* ------------------------------------------------------------ cache entries
\* The object literals of compileAndCacheModules.  hasMeta: the entry has
\* ast/scope/imports/exports; hasFiles: it has dir and outputFiles.  meta is
\* the fingerprint the module had when it was parsed and the number of
\* Object.create wrappers around the stored imports/exports.
NoDir == <<>>
NoMeta == [stamp |-> <<>>, wrap |-> 0]

ModuleEntry(h, meta) ==
  [hash |-> h, hasMeta |-> TRUE, meta |-> meta,
   hasFiles |-> FALSE, dir |-> NoDir, outputFiles |-> <<>>]

WithFiles(entry, dir, files) ==
  [entry EXCEPT !.hasFiles = TRUE, !.dir = dir, !.outputFiles = files]

BundleEntry(h, dir, files) ==
  [hash |-> h, hasMeta |-> FALSE, meta |-> NoMeta,
   hasFiles |-> TRUE, dir |-> dir, outputFiles |-> files]

Has(c, key) == key \in DOMAIN c

\* Variant of Store: the entry goes under the module's absolute path.
StoreByAbsolutePath(c, key, entry) == (Join(SrcDir, key) :> entry) @@ c

\* Variant of Store: the entry is stored in a cache emptied first.
StoreAlone(c, key, entry) == (key :> entry)

Store(c, key, entry) == (key :> entry) @@ c

\* Variant of CopyFiles: every output file lands directly in destDir, under
\* its base name.
RECURSIVE CopyFilesFlat(_, _, _, _, _, _)
CopyFilesFlat(files, cacheDir, destDir, scr, d, root) ==
  IF Len(files) = 0 THEN [ok |-> TRUE, dest |-> d]
  ELSE LET cachePath == Join(cacheDir, Head(files))
           destPath == Join(destDir, BaseName(Head(files))) IN
       IF ~IsFileIn(scr, cachePath) \/ destPath = root \/ IsDirOf(d, destPath)
       THEN [ok |-> FALSE, dest |-> d]
       ELSE LET src == CHOOSE f \in FileAt(scr, cachePath) : TRUE IN
            CopyFilesFlat(Tail(files), cacheDir, destDir, scr,
                          Put(d, File(destPath, src.kind, src.from)), root)

\* ------------------------------------------------------------ copyFromCache
\* Copies the entry's output files, in order, from the entry's cache dir to
\* destDir.  It throws when the entry has no outputFiles (forEach of
\* undefined), when a cached file is missing or is a directory, and when the
\* destination path is a directory; what was copied before stays.
RECURSIVE CopyFiles(_, _, _, _, _, _)
CopyFiles(files, cacheDir, destDir, scr, d, root) ==
  IF Len(files) = 0 THEN [ok |-> TRUE, dest |-> d]
  ELSE LET cachePath == Join(cacheDir, Head(files))
           destPath == Join(destDir, Head(files)) IN
       IF ~IsFileIn(scr, cachePath) \/ destPath = root \/ IsDirOf(d, destPath)
       THEN [ok |-> FALSE, dest |-> d]
       ELSE LET src == CHOOSE f \in FileAt(scr, cachePath) : TRUE IN
            CopyFiles(Tail(files), cacheDir, destDir, scr,
                      Put(d, File(destPath, src.kind, src.from)), root)

copyFromCache(cacheEntry, destDir, scr, d, root) ==
  IF ~cacheEntry.hasFiles THEN [ok |-> FALSE, dest |-> d]
  ELSE CopyFiles(cacheEntry.outputFiles, cacheEntry.dir, destDir, scr, d, root)

\* ------------------------------------------------------------ CacheResolver
\* No fromModule argument.
NoModule == <<>>

\* importedPath.charAt(0) === '.'
StartsWithDot(p) ==
  Len(p) > 0 /\ (Head(p).name \in {".", ".."} \/ (Head(p).name = "" /\ Len(Head(p).exts) > 0))

\* resolved += '.js'
AppendJs(p) ==
  LET q == p[Len(p)] IN [p EXCEPT ![Len(p)] = Seg(q.name, Append(q.exts, "js"))]

\* Variant of resolvePath: every path is resolved against the source dir.
resolvePathFromRoot(importedPath, fromModule) ==
  LET resolved == Resolve(SrcDir, importedPath) IN
  IF ExtName(resolved) # "js" THEN AppendJs(resolved) ELSE resolved

resolvePath(importedPath, fromModule) ==
  LET srcDir == IF StartsWithDot(importedPath) /\ fromModule # NoModule
                THEN DirName(fromModule) ELSE SrcDir
      resolved == Resolve(srcDir, importedPath) IN
  IF ExtName(resolved) # "js" THEN AppendJs(resolved) ELSE resolved

\* A Module of the transpiler: its path, whether it is a CachedModule, and
\* its metadata (ast, scope, imports, exports).  `from` is the hash of the
\* cache entry a CachedModule was made from (observation only).
Module(p, cached, meta, from) == [path |-> p, cached |-> cached, meta |-> meta, from |-> from]

\* Variant of CachedModule: the module gets the stored imports and exports
\* themselves, with no Object.create wrapper.
CachedModuleShared(resolvedPath, cachedMeta) ==
  Module(resolvedPath, TRUE, cachedMeta.meta, cachedMeta.hash)

\* new CachedModule(resolvedPath, importedPath, container, cachedMeta):
\* Object.create(cachedMeta.imports, ...) wraps the stored metadata once, and
\* throws a TypeError when the entry has none.
CachedModule(resolvedPath, cachedMeta) ==
  Module(resolvedPath, TRUE, [cachedMeta.meta EXCEPT !.wrap = @ + 1], cachedMeta.hash)

\* Variant of ResolverHit: any entry under the path is a hit, whatever its hash.
ResolverHitAnyHash(c, tree, resolvedPath, key) == Has(c, key)

\* The hash check of resolveModule: an entry under the source-relative path
\* whose hash is the file's.
ResolverHit(c, tree, resolvedPath, key) ==
  Has(c, key) /\ c[key].hash = <<hashFile(tree, resolvedPath)>>

\* resolveModule once the path is resolved: "loaded" is the module of
\* container.getCachedModule, "hydrated" a new CachedModule, "absent" null,
\* "throw" the TypeError of the CachedModule constructor.
Resolved(resolvedPath, key, loaded, c, tree) ==
  [path |-> resolvedPath,
   kind |-> IF resolvedPath \in loaded THEN "loaded"
            ELSE IF ~ResolverHit(c, tree, resolvedPath, key) THEN "absent"
            ELSE IF c[key].hasMeta THEN "hydrated" ELSE "throw"]

resolveModule(importedPath, fromModule, loaded, c, tree) ==
  Resolved(resolvePath(importedPath, fromModule),
           Relative(SrcDir, resolvePath(importedPath, fromModule)), loaded, c, tree)

\* ---------------------------------------------------------------- Container
\* The transpiler's Container with resolvers [CacheResolver, FileResolver].
\* getModule asks the CacheResolver first; on null the FileResolver makes a
\* Module for a path that exists (its source is read when it is compiled)
\* and getModule throws for one that does not.  container.write() loads the
\* imports of every module it holds, reads and parses the modules that are
\* not CachedModules, and writes the output.
Request(imp, from) == [imp |-> imp, from |-> from]

RECURSIVE RequestsOf(_, _)
RequestsOf(imports, from) ==
  IF Len(imports) = 0 THEN <<>>
  ELSE <<Request(Head(imports), from)>> \o RequestsOf(Tail(imports), from)

Loaded(mods) == {mods[i].path : i \in 1..Len(mods)}

\* Variant of Answer: the resolver chain is [FileResolver, CacheResolver]; a
\* path that exists is answered by the FileResolver and the CacheResolver is
\* not asked.
AnswerFileFirst(r, rel, st, c, tree) ==
  IF r.kind = "loaded" THEN st
  ELSE IF Exists(tree, rel)
  THEN [st EXCEPT !.mods = Append(@, Module(r.path, FALSE,
                              [stamp |-> hashFile(tree, r.path), wrap |-> 0], <<>>))]
  ELSE IF r.kind = "throw"
  THEN [st EXCEPT !.err = "TypeError", !.lookups = @ \cup {rel}]
  ELSE IF r.kind = "hydrated"
  THEN [st EXCEPT !.mods = Append(@, CachedModule(r.path, c[rel])),
                  !.lookups = @ \cup {rel}]
  ELSE [st EXCEPT !.err = "missing module import", !.lookups = @ \cup {rel}]

\* container.getModule(importedPath, fromModule), given the CacheResolver's
\* answer r.  st: the modules the container holds, in load order, the
\* error thrown, if any, the cache keys the CacheResolver looked up, and the
\* module paths compileAndCacheModules itself passed to getModule.
Answer(r, rel, st, c, tree) ==
  CASE r.kind = "loaded" -> st
    [] r.kind = "throw" -> [st EXCEPT !.err = "TypeError", !.lookups = @ \cup {rel}]
    [] r.kind = "hydrated" ->
         [st EXCEPT !.mods = Append(@, CachedModule(r.path, c[rel])),
                    !.lookups = @ \cup {rel}]
    [] OTHER ->
         IF Exists(tree, rel)
         THEN [st EXCEPT !.mods = Append(@, Module(r.path, FALSE,
                                     [stamp |-> hashFile(tree, r.path), wrap |-> 0], <<>>)),
                         !.lookups = @ \cup {rel}]
         ELSE [st EXCEPT !.err = "missing module import", !.lookups = @ \cup {rel}]

getModule(rq, st, c, tree) ==
  Answer(resolveModule(rq.imp, rq.from, Loaded(st.mods), c, tree),
         Relative(SrcDir, resolvePath(rq.imp, rq.from)),
         IF rq.from = NoModule THEN [st EXCEPT !.asked = Append(@, rq.imp)] ELSE st,
         c, tree)

\* The imports of the module a getModule call added to the container.
NewImports(before, after) ==
  IF Len(after.mods) > Len(before.mods)
  THEN LET m == after.mods[Len(after.mods)] IN
       RequestsOf(ImportsOf(Relative(SrcDir, m.path)), m.path)
  ELSE <<>>

\* A new Container.
NoModules == [mods |-> <<>>, err |-> "", lookups |-> {}, asked |-> <<>>]

\* A run of getModule calls; with `follow`, the imports of each module
\* loaded are requested in turn, as container.write() does.
RECURSIVE Load(_, _, _, _, _)
Loading(todo, before, after, follow, c, tree) ==
  Load(Tail(todo) \o (IF follow THEN NewImports(before, after) ELSE <<>>),
       after, follow, c, tree)

Load(todo, st, follow, c, tree) ==
  IF Len(todo) = 0 \/ st.err # "" THEN st
  ELSE Loading(todo, st, getModule(Head(todo), st, c, tree), follow, c, tree)

\* The requests container.write() makes for the imports of the modules held.
RECURSIVE ImportRequests(_)
ImportRequests(mods) ==
  IF Len(mods) = 0 THEN <<>>
  ELSE RequestsOf(ImportsOf(Relative(SrcDir, Head(mods).path)), Head(mods).path)
       \o ImportRequests(Tail(mods))

\* Reading the source of a module that is not a CachedModule fails when its
\* path is a directory (EISDIR).
ReadsDirectory(mods, tree) ==
  \E i \in 1..Len(mods) :
    ~mods[i].cached /\ IsDirIn(tree, Relative(SrcDir, mods[i].path))

Origin(m) == <<Relative(SrcDir, m.path), m.meta.stamp>>

\* The files container.write(target) writes: the bundle formatter one file
\* made from every module held, the others one file per module below
\* target, each with its source map.
Written(mods, target) ==
  IF FormatterIsBundle
  THEN LET from == {Origin(mods[i]) : i \in 1..Len(mods)} IN
       {File(target, "js", from), File(AddMap(target), "map", from)}
  ELSE UNION {LET p == Join(target, Relative(SrcDir, mods[i].path)) IN
              {File(p, "js", {Origin(mods[i])}), File(AddMap(p), "map", {Origin(mods[i])})}
              : i \in 1..Len(mods)}

RECURSIVE PutAll(_, _)
PutAll(fs, new) ==
  IF new = {} THEN fs
  ELSE LET f == CHOOSE x \in new : TRUE IN PutAll(Put(fs, f), new \ {f})

\* ------------------------------------------------- compileAndCacheModules
\* The modules.forEach loop after container.write(): every module returned
\* by getModule gets a fresh entry under its source-relative path; when the
\* output is a dir the entry also gets the compile run's cache dir and its
\* output files, which are copied to outputPath.
\* acc: [ok, cache, dest, outputHash, puts].
RECURSIVE CacheModules(_, _, _, _, _, _, _, _)
CacheModules(modules, acc, tree, outputIsFile, cacheDir, outputPath, scr, root) ==
  IF Len(modules) = 0 \/ ~acc.ok THEN acc
  ELSE LET module == Head(modules)
           h == <<hashFile(tree, module.path)>>
           relPath == Relative(SrcDir, module.path)
           \* un-wrap the imports and exports of a CachedModule
           meta == IF module.cached THEN [module.meta EXCEPT !.wrap = @ - 1]
                   ELSE module.meta
           cacheEntry == ModuleEntry(h, meta) IN
       IF outputIsFile
       THEN CacheModules(Tail(modules),
                         [acc EXCEPT !.cache = Store(@, relPath, cacheEntry),
                                     !.outputHash = @ \o h,
                                     !.puts = @ \cup {relPath}],
                         tree, outputIsFile, cacheDir, outputPath, scr, root)
       ELSE LET withFiles == WithFiles(cacheEntry, cacheDir, <<relPath, AddMap(relPath)>>)
                cp == copyFromCache(withFiles, outputPath, scr, acc.dest, root) IN
            CacheModules(Tail(modules),
                         [acc EXCEPT !.cache = Store(@, relPath, withFiles),
                                     !.puts = @ \cup {relPath},
                                     !.ok = cp.ok, !.dest = cp.dest],
                         tree, outputIsFile, cacheDir, outputPath, scr, root)

\* Variant of Outcome: a run that fails leaves the cache reset.
OutcomeResettingCache(ok, err, c, idx, tmp, scr, d, st, containers, writes, puts) ==
  [ok |-> ok, err |-> err, cache |-> IF ok THEN c ELSE <<>>, cacheIndex |-> idx,
   tmpCacheDir |-> tmp, scratch |-> scr, dest |-> d, mods |-> st.mods,
   lookups |-> st.lookups, handed |-> st.asked, containers |-> containers,
   writes |-> writes, puts |-> puts]

\* What compileAndCacheModules returns to write(): the instance and the disk
\* as it leaves them, and what it did.
Outcome(ok, err, c, idx, tmp, scr, d, st, containers, writes, puts) ==
  [ok |-> ok, err |-> err, cache |-> c, cacheIndex |-> idx, tmpCacheDir |-> tmp,
   scratch |-> scr, dest |-> d, mods |-> st.mods, lookups |-> st.lookups,
   handed |-> st.asked, containers |-> containers, writes |-> writes, puts |-> puts]

\* Variant of CacheBundle: the bundle is copied out and no entry is stored
\* for it.
CacheBundleNoEntry(loop, cp, outputFile, cacheEntry, idx, tmp, scr, st) ==
  Outcome(cp.ok, IF cp.ok THEN "" ELSE "copy", loop.cache,
          idx, tmp, scr, cp.dest, st, 1, 1, loop.puts)

\* The end of compileAndCacheModules when the output is a file: the entry
\* of the bundle, stored under the output file's name and copied out.
CacheBundle(loop, cp, outputFile, cacheEntry, idx, tmp, scr, st) ==
  Outcome(cp.ok, IF cp.ok THEN "" ELSE "copy", Store(loop.cache, outputFile, cacheEntry),
          idx, tmp, scr, cp.dest, st, 1, 1, loop.puts \cup {outputFile})

BundleOf(loop, outputFile, cacheEntry, outputPath, root, idx, tmp, scr, st) ==
  CacheBundle(loop, copyFromCache(cacheEntry, DirName(outputPath), scr, loop.dest, root),
              outputFile, cacheEntry, idx, tmp, scr, st)

\* After the modules.forEach loop.
Cached(loop, outputIsFile, cacheDir, outputPath, root, idx, tmp, scr, st) ==
  IF ~loop.ok
  THEN Outcome(FALSE, "copy", loop.cache, idx, tmp, scr, loop.dest, st, 1, 1, loop.puts)
  ELSE IF ~outputIsFile
  THEN Outcome(TRUE, "", loop.cache, idx, tmp, scr, loop.dest, st, 1, 1, loop.puts)
  ELSE BundleOf(loop, BaseName(outputPath),
                BundleEntry(loop.outputHash, cacheDir,
                            <<BaseName(outputPath), AddMap(BaseName(outputPath))>>),
                outputPath, root, idx, tmp, scr, st)

\* mkdirp(target); container.write(target);  mkdirp is the asynchronous one
\* and gets no callback: its mkdir(target) is handed to the thread pool and
\* runs at some moment during or after the synchronous container.write(),
\* which makes the directories it writes into itself.  xfail says what
\* comes in the way of container.write(): "none"; "transformer", it throws
\* for a reason of its own (a module does not parse); "mkdir", the
\* mkdir(target) runs after container.write() has made the cache sub-dir and
\* before it opens its output file.  When target is the bundle's file path
\* that leaves a directory at the path and writing the file fails; when
\* target is the cache sub-dir it makes the directory the transpiler would
\* make.
MkdirInTheWay(outputIsFile, xfail) == outputIsFile /\ xfail = "mkdir"

\* The error container.write(target) throws, "" when it returns: from
\* loading the imports, from reading the sources, from compiling, from
\* writing, in this order.
WriteError(all, tree, outputIsFile, xfail) ==
  IF all.err # "" THEN all.err
  ELSE IF ReadsDirectory(all.mods, tree) THEN "EISDIR"
  ELSE IF xfail = "transformer" THEN "transformer"
  ELSE IF MkdirInTheWay(outputIsFile, xfail) THEN "EISDIR target"
  ELSE ""

\* Variant of Compiled: the entries of the modules are stored before the
\* failure of container.write() is looked at.
CompiledStoringFirst(got, all, outputIsFile, cacheDir, target, outputPath, root, c, idx, tmp, scr, d, tree, xfail) ==
  LET loop == CacheModules(got.mods,
                           [ok |-> TRUE, cache |-> c, dest |-> d, outputHash |-> <<>>,
                            puts |-> {}],
                           tree, outputIsFile, cacheDir, outputPath,
                           PutAll(scr, Written(got.mods, target)), root) IN
  IF WriteError(all, tree, outputIsFile, xfail) # ""
  THEN Outcome(FALSE, WriteError(all, tree, outputIsFile, xfail),
               loop.cache, idx, tmp, scr, loop.dest, all, 1, 1, loop.puts)
  ELSE Cached(loop, outputIsFile, cacheDir, outputPath, root, idx, tmp,
              PutAll(scr, Written(all.mods, target)), all)

\* container.write(target) and what follows it.
Compiled(got, all, outputIsFile, cacheDir, target, outputPath, root, c, idx, tmp, scr, d, tree, xfail) ==
  IF WriteError(all, tree, outputIsFile, xfail) # ""
  THEN Outcome(FALSE, WriteError(all, tree, outputIsFile, xfail), c, idx, tmp,
               IF WriteError(all, tree, outputIsFile, xfail) = "EISDIR target"
               THEN Put(scr, File(target, "dir", {})) ELSE scr,
               d, all, 1, 1, {})
  ELSE Cached(CacheModules(got.mods,
                           [ok |-> TRUE, cache |-> c, dest |-> d, outputHash |-> <<>>,
                            puts |-> {}],
                           tree, outputIsFile, cacheDir, outputPath,
                           PutAll(scr, Written(all.mods, target)), root),
              outputIsFile, cacheDir, outputPath, root, idx, tmp,
              PutAll(scr, Written(all.mods, target)), all)

\* Variant of Compile: this._cacheIndex is read and not incremented.
CompileSameIndex(got, outputIsFile, cacheDir, outputPath, root, c, idx, tmp, scr, d, tree, xfail) ==
  Compiled(got, Load(ImportRequests(got.mods), got, TRUE, c, tree), outputIsFile, cacheDir,
           IF outputIsFile THEN Join(cacheDir, BaseName(outputPath)) ELSE cacheDir,
           outputPath, root, c, idx, tmp, scr, d, tree, xfail)

\* From the new cache sub-dir on: this._cacheIndex++, the target, the write.
Compile(got, outputIsFile, cacheDir, outputPath, root, c, idx, tmp, scr, d, tree, xfail) ==
  Compiled(got, Load(ImportRequests(got.mods), got, TRUE, c, tree), outputIsFile, cacheDir,
           IF outputIsFile THEN Join(cacheDir, BaseName(outputPath)) ELSE cacheDir,
           outputPath, root, c, idx + 1, tmp, scr, d, tree, xfail)

\* After modulePaths.map(container.getModule).
Got(got, outputPath, root, c, idx, tmp, scr, d, tree, xfail) ==
  IF got.err # ""
  THEN Outcome(FALSE, got.err, c, idx, tmp, scr, d, got, 1, 0, {})
  ELSE Compile(got, ExtName(outputPath) = "js",
               Join(CacheRoot(getCacheDir(tmp)), <<Plain(ToString(idx))>>),
               outputPath, root, c, idx, getCacheDir(tmp), scr, d, tree, xfail)

\* Variant of compileAndCacheModules: every module file of the tree is
\* passed to container.getModule, whatever modulePaths holds.
compileAndCacheModulesOfTree(modulePaths, outputPath, root, c, idx, tmp, scr, d, tree, xfail) ==
  IF Len(modulePaths) < 1
  THEN Outcome(TRUE, "", c, idx, tmp, scr, d, NoModules, 0, 0, {})
  ELSE Got(Load(RequestsOf(SelectSeq(walkSync(tree), LAMBDA e : ExtName(e) = "js"), NoModule),
                NoModules, FALSE, c, tree),
           outputPath, root, c, idx, tmp, scr, d, tree, xfail)

\* Variant of compileAndCacheModules: no early return for an empty
\* modulePaths.
compileAndCacheModulesAlways(modulePaths, outputPath, root, c, idx, tmp, scr, d, tree, xfail) ==
  Got(Load(RequestsOf(modulePaths, NoModule), NoModules, FALSE, c, tree),
      outputPath, root, c, idx, tmp, scr, d, tree, xfail)

\* compileAndCacheModules(modulePaths, srcDir, outputPath), as a function of
\* the instance (c, idx, tmp), the disk (scr, d, tree) and whether the
\* transpiler fails.
compileAndCacheModules(modulePaths, outputPath, root, c, idx, tmp, scr, d, tree, xfail) ==
  \* Noop when no modules to compile.
  IF Len(modulePaths) < 1
  THEN Outcome(TRUE, "", c, idx, tmp, scr, d, NoModules, 0, 0, {})
  ELSE Got(Load(RequestsOf(modulePaths, NoModule), NoModules, FALSE, c, tree),
           outputPath, root, c, idx, tmp, scr, d, tree, xfail)

\* -------------------------------------------------------------------- write
\* The classification of one walkSync entry by write()'s forEach.
Classify(relPath) ==
  IF ExtName(relPath) = "js" THEN "module"
  ELSE IF EndsWithSlash(relPath) THEN "dir"
  ELSE "copy"

\* The reuse test of the bundle branch.
BundleHit(c, tree, key, modules) == Has(c, key) /\ c[key].hash = hash(tree, modules)

\* Variant of ModuleHit: the entry is looked up under the module's base name.
ModuleHitBaseName(c, tree, module) ==
  Has(c, BaseName(module)) /\ c[BaseName(module)].hash = hash(tree, <<module>>)

\* The reuse test of the directory branch.
ModuleHit(c, tree, module) == Has(c, module) /\ c[module].hash = hash(tree, <<module>>)

Reuse(key, entry) == [key |-> key, entry |-> entry]

\* Variant of CheckModules: an unchanged module is noted as reused and its
\* cached files are not copied.
RECURSIVE CheckModulesNoCopy(_, _, _, _, _, _, _)
CheckModulesNoCopy(modules, acc, c, tree, outputPath, scr, root) ==
  IF Len(modules) = 0 \/ ~acc.ok THEN acc
  ELSE LET module == Head(modules) IN
       IF ModuleHit(c, tree, module)
       THEN CheckModulesNoCopy(Tail(modules),
                               [acc EXCEPT !.reuse = @ \cup {Reuse(module, c[module])},
                                           !.lookups = @ \cup {module}],
                               c, tree, outputPath, scr, root)
       ELSE CheckModulesNoCopy(Tail(modules),
                               [acc EXCEPT !.queue = Append(@, module),
                                           !.lookups = @ \cup {module}],
                               c, tree, outputPath, scr, root)

\* The modules.forEach loop of the directory branch.
\* acc: [ok, dest, queue, reuse, modules, lookups].
RECURSIVE CheckModules(_, _, _, _, _, _, _)
CheckModules(modules, acc, c, tree, outputPath, scr, root) ==
  IF Len(modules) = 0 \/ ~acc.ok THEN acc
  ELSE LET module == Head(modules) IN
       IF ModuleHit(c, tree, module)
       THEN LET cp == copyFromCache(c[module], outputPath, scr, acc.dest, root) IN
            CheckModules(Tail(modules),
                         [acc EXCEPT !.ok = cp.ok, !.dest = cp.dest,
                                     !.reuse = @ \cup {Reuse(module, c[module])},
                                     !.lookups = @ \cup {module}],
                         c, tree, outputPath, scr, root)
       ELSE CheckModules(Tail(modules),
                         [acc EXCEPT !.queue = Append(@, module),
                                     !.lookups = @ \cup {module}],
                         c, tree, outputPath, scr, root)

\* Variant of Copied: every file lands directly in destDir, under its base name.
CopiedFlat(tree, entries, destDir) ==
  {File(Join(destDir, BaseName(entries[i])), "raw", {<<entries[i], <<tree[entries[i]]>> >>})
     : i \in {j \in 1..Len(entries) : Classify(entries[j]) = "copy"}}

\* The non-JavaScript files copied to destDir.
Copied(tree, entries, destDir) ==
  {File(Join(destDir, entries[i]), "raw", {<<entries[i], <<tree[entries[i]]>> >>})
     : i \in {j \in 1..Len(entries) : Classify(entries[j]) = "copy"}}

\* What write() decides before it compiles: the modules found, the entries
\* reused and the modules to compile.  entries is the listing walkSync gave,
\* tree the source tree as it is when the files are hashed and read.
Decide(entries, destDir, c, tree, scr) ==
  LET outputPath == Join(destDir, output)
      modules == SelectSeq(entries, LAMBDA e : Classify(e) = "module")
      copied == Copied(tree, entries, destDir)
      start == [ok |-> TRUE, dest |-> copied, queue |-> <<>>, reuse |-> {},
                modules |-> modules, lookups |-> {}] IN
  IF ExtName(outputPath) = "js"
  THEN LET key == BaseName(outputPath) IN
       IF BundleHit(c, tree, key, modules)
       THEN LET cp == copyFromCache(c[key], DirName(outputPath), scr, copied, destDir) IN
            [start EXCEPT !.ok = cp.ok, !.dest = cp.dest, !.reuse = {Reuse(key, c[key])},
                          !.lookups = {key}]
       ELSE [start EXCEPT !.queue = modules, !.lookups = {key}]
  ELSE CheckModules(modules, start, c, tree, outputPath, scr, destDir)

NoBuild ==
  [built |-> FALSE, ok |-> FALSE, err |-> "", destDir |-> <<>>, outputIsFile |-> FALSE,
   tree |-> [f \in Files |-> 0], modules |-> <<>>,
   queue |-> <<>>, reuse |-> {}, mods |-> <<>>, lookups |-> {}, handed |-> <<>>,
   mkdirLate |-> FALSE, containers |-> 0, writes |-> 0, puts |-> {}]

\* CompileModules.prototype.write(readTree, destDir), from the walkSync
\* listing on: entries is the listing, tree the source tree from then on.
writeScanned(entries, tree, destDir, xfail) ==
  /\ cacheIndex < MaxIndex
  /\ \E dec \in {Decide(entries, destDir, cache, tree, scratch)} :
     \E r \in {IF dec.ok
               THEN compileAndCacheModules(dec.queue, Join(destDir, output), destDir, cache,
                                           cacheIndex, tmpCacheDir, scratch, dec.dest,
                                           tree, xfail)
               ELSE [ok |-> FALSE, err |-> "copy", cache |-> cache, cacheIndex |-> cacheIndex,
                     tmpCacheDir |-> tmpCacheDir, scratch |-> scratch, dest |-> dec.dest,
                     mods |-> <<>>, lookups |-> {}, handed |-> <<>>, containers |-> 0,
                     writes |-> 0, puts |-> {}]} :
     /\ cache' = r.cache
     /\ cacheIndex' = r.cacheIndex
     /\ tmpCacheDir' = r.tmpCacheDir
     /\ scratch' = r.scratch
     /\ dest' = r.dest
     /\ srcTree' = tree
     /\ last' = [built |-> TRUE, ok |-> r.ok, err |-> r.err, destDir |-> destDir,
                 outputIsFile |-> ExtName(Join(destDir, output)) = "js",
                 tree |-> tree,
                 modules |-> dec.modules, queue |-> dec.queue, reuse |-> dec.reuse,
                 mods |-> r.mods, lookups |-> dec.lookups \cup r.lookups,
                 handed |-> r.handed, mkdirLate |-> xfail = "mkdir",
                 containers |-> r.containers, writes |-> r.writes, puts |-> r.puts]
     /\ UNCHANGED <<output, resolution>>

\* CompileModules.prototype.write(readTree, destDir)
write(destDir, xfail) ==
  /\ writeScanned(walkSync(srcTree), srcTree, destDir, xfail)
  /\ UNCHANGED edits

\* A build run by the Broccoli builder.
Build == write(TmpDestDir, "none")

\* A build in which the transpiler throws.
FailingBuild == write(TmpDestDir, "transformer")

\* A build by a caller that passes write() a destination of its own.
BuildInto == \E destDir \in DestDirs : write(destDir, "none")

\* A build in which the pending mkdir(target) runs while container.write()
\* is between making the cache sub-dir and writing its output.
RacingBuild == write(TmpDestDir, "mkdir")

\* A build during which a module file is removed after walkSync listed it
\* (the removal is one of the changes made to the source tree).
VanishingBuild ==
  \E g \in Modules :
    /\ edits < MaxEdits
    /\ srcTree[g] # 0
    /\ writeScanned(walkSync(srcTree), [srcTree EXCEPT ![g] = 0], TmpDestDir, "none")
    /\ edits' = edits + 1

\* CompileModules.prototype.cleanup(): quickTemp.remove() deletes the cache
\* directory with everything below it, and Writer's cleanup the destination
\* of the latest build; this._cache and this._cacheIndex stay.
cleanup ==
  /\ tmpCacheDir' = IF tmpCacheDir > 0 THEN 0 - tmpCacheDir ELSE tmpCacheDir
  /\ scratch' = {}
  /\ dest' = {}
  /\ last' = NoBuild
  /\ UNCHANGED <<output, cache, cacheIndex, srcTree, edits, resolution>>

\* ------------------------------------------------------ the world outside
\* Between builds the source tree changes: a file is modified (its stat
\* fingerprint changes), a module file is added, removed or renamed.
ModifyFile ==
  \E f \in Files, h \in 1..MaxStamp :
    /\ edits < MaxEdits
    /\ srcTree[f] # 0 /\ srcTree[f] # h
    /\ srcTree' = [srcTree EXCEPT ![f] = h]
    /\ edits' = edits + 1
    /\ UNCHANGED <<output, cache, cacheIndex, tmpCacheDir, scratch, dest, last, resolution>>

AddFile ==
  \E f \in Modules, h \in 1..MaxStamp :
    /\ edits < MaxEdits
    /\ srcTree[f] = 0
    /\ srcTree' = [srcTree EXCEPT ![f] = h]
    /\ edits' = edits + 1
    /\ UNCHANGED <<output, cache, cacheIndex, tmpCacheDir, scratch, dest, last, resolution>>

RemoveFile ==
  \E f \in Modules :
    /\ edits < MaxEdits
    /\ srcTree[f] # 0
    /\ srcTree' = [srcTree EXCEPT ![f] = 0]
    /\ edits' = edits + 1
    /\ UNCHANGED <<output, cache, cacheIndex, tmpCacheDir, scratch, dest, last, resolution>>

\* mv f g: the file keeps its mode, size and mtime under its new name.
RenameFile ==
  \E f \in Modules, g \in Modules :
    /\ edits < MaxEdits
    /\ srcTree[f] # 0 /\ srcTree[g] = 0
    /\ srcTree' = [srcTree EXCEPT ![f] = 0, ![g] = srcTree[f]]
    /\ edits' = edits + 1
    /\ UNCHANGED <<output, cache, cacheIndex, tmpCacheDir, scratch, dest, last, resolution>>

\* ln -sf: a module file is replaced by a symbolic link to a file with the
\* content it had.
LinkFile ==
  \E f \in Modules :
    /\ edits < MaxEdits
    /\ srcTree[f] > 0
    /\ srcTree' = [srcTree EXCEPT ![f] = 0 - srcTree[f]]
    /\ edits' = edits + 1
    /\ UNCHANGED <<output, cache, cacheIndex, tmpCacheDir, scratch, dest, last, resolution>>

\* The instance as its constructor leaves it, and the source tree.
Constructed ==
  /\ output \in Outputs
  /\ cache = <<>>
  /\ cacheIndex = 0
  /\ tmpCacheDir = 0
  /\ srcTree = [f \in Files |-> IF f = ACC_JS THEN 0 ELSE 1]
  /\ scratch = {}
  /\ dest = {}
  /\ last = NoBuild
  /\ edits = 0

\* ---------------------------------------------------- resolvePath, alone
\* The import paths a module source may hold: "./foo/bar", "./a.js",
\* "./bar", "../a", "../a.js", "a", "a.js", "foo/bar", "foo/bar.js",
\* "a.map", "a.js.map", ".hidden", ".js", "./accounting.js/", "./foo/".
ImportedPaths ==
  { <<DotSeg, Plain("foo"), Plain("bar")>>, <<DotSeg, Js("a")>>, <<DotSeg, Plain("bar")>>,
    <<UpSeg, Plain("a")>>, <<UpSeg, Js("a")>>,
    <<Plain("a")>>, <<Js("a")>>, <<Plain("foo"), Plain("bar")>>, <<Plain("foo"), Js("bar")>>,
    <<Seg("a", <<"map">>)>>, <<Seg("a", <<"js", "map">>)>>,
    <<Seg("", <<"hidden">>)>>, <<Seg("", <<"js">>)>>,
    <<DotSeg, Js("accounting"), EmptySeg>>, <<DotSeg, Plain("foo"), EmptySeg>> }

\* The paths of the importing modules: none, a module at the root of the
\* source dir, and modules one and two directories below it.
FromModules ==
  { NoModule, Join(SrcDir, A_JS), Join(SrcDir, BAR_JS),
    Join(SrcDir, <<Plain("foo"), Plain("baz"), Js("q")>>) }

NoResolution ==
  [importedPath |-> <<>>, fromModule |-> NoModule, done |-> FALSE, resolved |-> <<>>]

\* A CacheResolver about to resolve an import.
InitResolve ==
  /\ Constructed
  /\ resolution \in {[importedPath |-> p, fromModule |-> m, done |-> FALSE, resolved |-> <<>>]
                       : p \in ImportedPaths, m \in FromModules}

\* resolvePath(importedPath, fromModule) is called and returns.
resolvePathCall ==
  /\ ~resolution.done
  /\ resolution' = [resolution EXCEPT
                      !.done = TRUE,
                      !.resolved = resolvePath(resolution.importedPath,
                                               resolution.fromModule)]
  /\ UNCHANGED <<output, cache, cacheIndex, tmpCacheDir, srcTree, scratch, dest, last, edits>>

\* ------------------------------------------------------------ specification
\* new CompileModules(inputTree, options) over a source tree with the two
\* modules and the text file; the accounting.js/ directory comes with AddFile.
Init == Constructed /\ resolution = NoResolution

Next == Build \/ FailingBuild \/ ModifyFile \/ AddFile \/ RemoveFile \/ RenameFile

Spec == Init /\ [][Next]_vars

\* The same as Spec, with the mkdir(target) of a compile pass running late.
NextRace == Next \/ RacingBuild

SpecRace == Init /\ [][NextRace]_vars

\* The same, with write() also called directly.
NextDest == Next \/ BuildInto

SpecDest == Init /\ [][NextDest]_vars

\* The same as Spec, with symbolic links in the source tree, a file that
\* vanishes during a build, and cleanup().
NextEnv == Next \/ LinkFile \/ VanishingBuild \/ cleanup

SpecEnv == Init /\ [][NextEnv]_vars

\* One call of the CacheResolver's resolvePath, for every import path and
\* importing module.
NextResolve == resolvePathCall

SpecResolve == InitResolve /\ [][NextResolve]_vars

\* ------------------------------------------------------------------ claims
\* The module files a tree holds, in scan order.
ModulesIn(tree) ==
  SelectSeq(WalkOrder, LAMBDA e : ~EndsWithSlash(e) /\ ExtName(e) = "js" /\ Present(tree, e))

SameModules(t1, t2) == \A f \in Modules : t1[f] = t2[f]

\* The compiled files among the files of a destination.
Artifacts(d) == {f \in d : f.kind # "raw"}

\* The step is a write() (a change of the source tree counts as an edit).
WriteStep == edits' = edits /\ last'.built

OutputPath == Join(last.destDir, output)

\* What a file compiled from module m of the latest build's tree is made of.
FromModule(m) == {<<m, hashFile(last.tree, Join(SrcDir, m))>>}

\* What a bundle of the latest build's tree is made of.
FromAll == {<<m, hashFile(last.tree, Join(SrcDir, m))>> : m \in {f \in Modules : Present(last.tree, f)}}

\* C1 (idempotence): a write() that follows a successful write() with no
\* module file changed, added or removed queues nothing, builds no Container,
\* calls no container.write, succeeds, and puts the same compiled files into
\* the destination.
C1_Idempotence ==
  [][(WriteStep /\ last.built /\ last.ok /\ SameModules(last.tree, srcTree))
       => /\ last'.ok
          /\ last'.queue = <<>>
          /\ last'.containers = 0 /\ last'.writes = 0
          /\ Artifacts(dest') = Artifacts(dest)]_vars

\* A build of a tree with modules that compiled nothing and reused entries.
C1_Witness ==
  /\ last.built /\ last.ok /\ last.modules # <<>>
  /\ last.queue = <<>> /\ last.reuse # {} /\ last.containers = 0
  /\ Artifacts(dest) # {}

\* C2 (no stale output): after a successful build every compiled file in the
\* destination was produced by a compile pass whose inputs had the hashes they
\* have in this build: every module the file was made from is hashed, in this
\* build's tree, to the hash it had when the file was made.
C2_NoStaleOutput ==
  (last.built /\ last.ok) =>
    \A f \in Artifacts(dest) :
      \A x \in f.from : hashFile(last.tree, Join(SrcDir, x[1])) = x[2]

\* C3 (the hash check is the sole authority): every entry write() copied from
\* the cache is stored under the key looked up and has the hash of the
\* current inputs (all modules for the bundle, the module for a module), and
\* every CachedModule was made from an entry whose hash is the current hash
\* of the module's file.
C3_HashCheckSoleAuthority ==
  last.built =>
    /\ \A r \in last.reuse :
         /\ r.key \in DOMAIN cache
         /\ r.key \in last.lookups
         /\ r.entry.hash = IF last.outputIsFile THEN hash(last.tree, last.modules)
                           ELSE hash(last.tree, <<r.key>>)
    /\ \A i \in 1..Len(last.mods) :
         last.mods[i].cached =>
           /\ Relative(SrcDir, last.mods[i].path) \in DOMAIN cache
           /\ last.mods[i].from = <<hashFile(last.tree, last.mods[i].path)>>

\* A build that copied an entry from the cache and made a CachedModule.
C3_Witness ==
  /\ last.built /\ last.reuse # {}
  /\ \E i \in 1..Len(last.mods) : last.mods[i].cached
  /\ \E k \in DOMAIN cache : k \notin {r.key : r \in last.reuse}

\* The module files whose hash differs between two trees that both hold them.
Changed(t1, t2) == {f \in Modules : t1[f] # 0 /\ t2[f] # 0 /\ t1[f] # t2[f]}

SameModuleSet(t1, t2) == \A f \in Modules : (t1[f] = 0) <=> (t2[f] = 0)

\* C4 (single-unit invalidation, directory mode): when a directory-mode
\* write() follows a successful one and exactly one module b changed hash in
\* between (none added or removed), exactly b is queued, every other module
\* is copied from the entry it already had, and every entry but b's is left
\* as it was.
C4_SingleUnitInvalidation ==
  [][(/\ WriteStep /\ last.built /\ last.ok
      /\ ~last.outputIsFile /\ ~last'.outputIsFile
      /\ SameModuleSet(last.tree, srcTree)
      /\ Cardinality(Changed(last.tree, srcTree)) = 1)
       => \E b \in Changed(last.tree, srcTree) :
            /\ last'.queue = <<b>>
            /\ \A m \in Modules \ {b} :
                 Present(srcTree, m) =>
                   /\ m \in DOMAIN cache
                   /\ Reuse(m, cache[m]) \in last'.reuse
                   /\ \A n \in 1..Len(cache[m].outputFiles) :
                        \E f \in dest', g \in scratch :
                          /\ f.path = Join(Join(last'.destDir, output), cache[m].outputFiles[n])
                          /\ g.path = Join(cache[m].dir, cache[m].outputFiles[n])
                          /\ f.from = g.from /\ f.kind = g.kind
            /\ \A k \in DOMAIN cache \ {b} : k \in DOMAIN cache' /\ cache'[k] = cache[k]]_vars

\* A successful directory-mode build that compiled one module and copied
\* another from the entry of an earlier compile run.
C4_Witness ==
  /\ last.built /\ last.ok /\ ~last.outputIsFile
  /\ Len(last.queue) = 1 /\ last.reuse # {}
  /\ \E k \in DOMAIN cache, j \in DOMAIN cache : cache[k].dir # cache[j].dir

\* The errors the transpiler throws: a module that does not parse, an import
\* that is missing, a module path that cannot be read.
TranspilerErrors == {"transformer", "missing module import", "EISDIR"}

\* C5 (whole-bundle invalidation): when a bundle-mode write() follows a
\* successful one and a module's hash changed or a module file was added or
\* removed in between, the bundle's entry is not reused and every module
\* file is queued; unless the transpiler fails, the build succeeds and leaves
\* a bundle entry whose hash is the aggregate of the current module hashes in
\* scan order, and the bundle made of the current modules in the destination.
C5_WholeBundleInvalidation ==
  [][(/\ WriteStep /\ last.built /\ last.ok
      /\ last.outputIsFile /\ last'.outputIsFile
      /\ ~SameModules(last.tree, srcTree)
      /\ ModulesIn(srcTree) # <<>>)
       => /\ last'.reuse = {}
          /\ \A m \in Modules :
               Present(srcTree, m) => \E n \in 1..Len(last'.queue) : last'.queue[n] = m
          /\ last'.err \notin TranspilerErrors =>
               /\ last'.ok
               /\ BaseName(Join(last'.destDir, output)) \in DOMAIN cache'
               /\ cache'[BaseName(Join(last'.destDir, output))].hash
                    = hash(srcTree, ModulesIn(srcTree))
               /\ \E f \in dest' : /\ f.path = Join(last'.destDir, output)
                                   /\ f.kind = "js"
                                   /\ f.from = {<<m, hashFile(srcTree, Join(SrcDir, m))>> :
                                                  m \in {g \in Modules : Present(srcTree, g)}}]_vars

\* C6 (resolution reuse): in a write() that follows a successful one, every
\* module the compile pass holds whose file is unchanged since that build is
\* a CachedModule, made from the module's cache entry.
C6_ResolutionReuse ==
  [][(WriteStep /\ last.built /\ last.ok)
       => \A i \in 1..Len(last'.mods) :
            LET y == Relative(SrcDir, last'.mods[i].path) IN
            (y \in Modules /\ srcTree[y] # 0 /\ srcTree[y] = last.tree[y])
              => last'.mods[i].cached]_vars

\* The files of a tree that are not module files.
OtherFiles == Files \ Modules

\* C7 (passthrough round trip): after every build, whatever its outcome and
\* mode, every file of the source tree that is not a module file is in the
\* destination at its relative path, as it is in the source tree, and no
\* such file was looked up in, written to, or is a key of the cache.
C7_PassthroughRoundTrip ==
  last.built =>
    \A p \in OtherFiles :
      /\ Present(last.tree, p) =>
           File(Join(last.destDir, p), "raw", {<<p, <<last.tree[p]>> >>}) \in dest
      /\ p \notin last.lookups /\ p \notin last.puts /\ p \notin DOMAIN cache

\* A build that queued a module and reused an entry, with the modified text
\* file copied.
C7_Witness ==
  /\ last.built /\ Present(last.tree, NOTES) /\ last.tree[NOTES] = 2
  /\ last.reuse # {} /\ last.queue # <<>>
  /\ \E f \in dest : f.path = Join(last.destDir, NOTES)

\* C8 (directory-mode completeness): after a successful directory-mode build
\* every module file of the source tree has its compiled file at
\* <output>/<relative path> in the destination.
C8_DirectoryComplete ==
  (last.built /\ last.ok /\ ~last.outputIsFile) =>
    \A p \in Modules :
      Present(last.tree, p) =>
        File(Join(OutputPath, p), "js", FromModule(p)) \in dest

\* A successful directory-mode build with foo/bar.js copied from the cache
\* and a.js compiled.
C8_Witness ==
  /\ last.built /\ last.ok /\ ~last.outputIsFile
  /\ last.queue = <<A_JS>>
  /\ \E r \in last.reuse : r.key = BAR_JS
  /\ \E f \in dest : f.path = Join(OutputPath, BAR_JS)

\* C9 (a directory named like a module): no directory entry is classified as
\* a module or queued, and unless the transpiler fails on a module file the
\* build of a tree with accounting.js/accounting.js succeeds and the
\* destination holds accounting.js/accounting.js.
C9_DirectoryNotAModule ==
  last.built =>
    /\ \A i \in 1..Len(last.modules) : ~EndsWithSlash(last.modules[i])
    /\ \A i \in 1..Len(last.queue) : ~EndsWithSlash(last.queue[i])
    /\ (Present(last.tree, ACC_JS) /\ ~last.outputIsFile
          /\ last.err \notin {"transformer", "missing module import"})
         => /\ last.ok
            /\ \E f \in dest : f.path = Join(OutputPath, ACC_JS) /\ f.kind = "js"

\* C10 (mode selection): the build is in bundle mode exactly when the
\* extension of the `output` option is ".js", whatever destination directory
\* write() is given.
C10_ModeFromOutputOption ==
  last.built => (last.outputIsFile <=> ExtName(output) = "js")

\* What a module file holds: a link holds what the file it points to holds.
Content(tree, f) == IF tree[f] < 0 THEN 0 - tree[f] ELSE tree[f]

SameContent(t1, t2) == \A f \in Modules : Content(t1, f) = Content(t2, f)

\* C11 (symlink neutrality): when a write() follows a successful one and
\* every module file holds what it held then, some now being symbolic links
\* to the unchanged content, every path has the hash it had and no entry is
\* judged stale: nothing is queued and nothing compiled.
C11_SymlinkNeutral ==
  [][(WriteStep /\ last.built /\ last.ok /\ SameContent(last.tree, srcTree))
       => /\ \A f \in Modules :
               hashFile(srcTree, Join(SrcDir, f)) = hashFile(last.tree, Join(SrcDir, f))
          /\ last'.queue = <<>>
          /\ last'.containers = 0]_vars

\* The entry under key names output files that are not in the cache
\* directory.
Inconsistent(c, scr, key) ==
  /\ Has(c, key) /\ c[key].hasFiles
  /\ \E n \in 1..Len(c[key].outputFiles) :
       ~IsFileIn(scr, Join(c[key].dir, c[key].outputFiles[n]))

\* C12 (cache inconsistency is a miss): when write() finds an entry whose
\* hash matches and whose output files are missing from the cache directory,
\* the build does not fail for it: unless the transpiler fails, the build
\* succeeds, the unit was queued, and its compiled file is in the
\* destination.
C12_InconsistencyIsMiss ==
  [][(WriteStep /\ last'.err \notin TranspilerErrors)
       => /\ (~last'.outputIsFile) =>
               \A m \in Modules :
                 (Present(srcTree, m) /\ ModuleHit(cache, srcTree, m)
                    /\ Inconsistent(cache, scratch, m))
                   => /\ last'.ok
                      /\ \E n \in 1..Len(last'.queue) : last'.queue[n] = m
                      /\ \E f \in dest' : f.path = Join(Join(last'.destDir, output), m)
          /\ (/\ last'.outputIsFile
              /\ BundleHit(cache, srcTree, BaseName(Join(last'.destDir, output)),
                           last'.modules)
              /\ Inconsistent(cache, scratch, BaseName(Join(last'.destDir, output))))
                 => /\ last'.ok
                    /\ last'.queue = last'.modules
                    /\ \E f \in dest' : f.path = Join(last'.destDir, output)]_vars

\* Module m imports module g.
Imports(m, g) ==
  \E i \in 1..Len(ImportsOf(m)) :
    resolvePath(ImportsOf(m)[i], Join(SrcDir, m)) = Join(SrcDir, g)

\* The module files the latest build listed and could not hash: they were
\* gone when it hashed them.
Vanished == {g \in Modules : ~Present(last.tree, g)
                             /\ \E i \in 1..Len(last.modules) : last.modules[i] = g}

\* C13 (a hashing failure is isolated, directory mode): in a directory-mode
\* build in which a listed module file was gone when it was hashed, and in
\* which the transpiler did not fail on another module, every other module
\* file that does not import the missing one was looked up in the cache and
\* has its compiled file, made from its current content, in the destination.
C13_HashFailureIsolated ==
  (last.built /\ ~last.outputIsFile /\ Vanished # {}
     /\ last.err \notin {"EISDIR", "transformer"})
    => \A m \in Modules \ Vanished :
         (Present(last.tree, m) /\ \A g \in Vanished : ~Imports(m, g))
           => /\ m \in last.lookups
              /\ File(Join(OutputPath, m), "js", FromModule(m)) \in dest

\* The errors container.getModule and container.write raise.
CompileErrors == TranspilerErrors \cup {"TypeError"}

\* The destination paths the compile pass of the coming write() would fill:
\* the bundle and its map, or the files of the queued modules.
PassPaths(destDir, outputIsFile, queue) ==
  IF outputIsFile
  THEN {Join(destDir, output), AddMap(Join(destDir, output))}
  ELSE UNION {{Join(Join(destDir, output), queue[n]),
               AddMap(Join(Join(destDir, output), queue[n]))} : n \in 1..Len(queue)}

\* C14 (a Transformer failure is never swallowed): a write() in which
\* container.getModule or container.write raises is rejected with that
\* error, puts no file of its compile pass into the destination, and
\* stores no cache entry: the cache is what it was before the write().
C14_TransformerFailureAborts ==
  [][(WriteStep /\ last'.err \in CompileErrors)
       => /\ ~last'.ok
          /\ last'.containers = 1
          /\ last'.puts = {}
          /\ cache' = cache
          /\ \A f \in dest' :
               f.path \notin PassPaths(last'.destDir, last'.outputIsFile, last'.queue)]_vars

\* A write() over a cache with entries fails in the transpiler with
\* modules queued.
C14_Witness ==
  /\ last.built /\ ~last.ok /\ last.err = "transformer"
  /\ Len(last.queue) > 0
  /\ DOMAIN cache # {}

\* The output files of entry key of cache c are all in the scratch area scr.
FilesKept(c, scr, key) ==
  \A n \in 1..Len(c[key].outputFiles) : IsFileIn(scr, Join(c[key].dir, c[key].outputFiles[n]))

\* C15 (a failed build does not damage the cache): after a write() that
\* aborts in the compile stage, every entry the cache held before it is
\* still there, field for field, with the output files it had in the scratch
\* area, and the reuse tests of a write() of the same tree (each module's,
\* and the bundle's) give what they would have given had the failed write()
\* not happened.
C15_FailedBuildKeepsCache ==
  [][(WriteStep /\ ~last'.ok /\ last'.containers = 1 /\ last'.err \in CompileErrors)
       => /\ \A k \in DOMAIN cache :
               /\ k \in DOMAIN cache'
               /\ cache'[k] = cache[k]
               /\ FilesKept(cache, scratch, k) => FilesKept(cache', scratch', k)
          /\ \A m \in Modules :
               ModuleHit(cache', srcTree', m) <=> ModuleHit(cache, srcTree', m)
          /\ BundleHit(cache', srcTree', BaseName(Join(TmpDestDir, output)), last'.modules)
               <=> BundleHit(cache, srcTree', BaseName(Join(TmpDestDir, output)), last'.modules)]_vars

\* A directory-mode write() reused the entry of one module, queued another
\* and failed in the transpiler; the reused entry still has its files.
C15_Witness ==
  /\ last.built /\ ~last.ok /\ last.err \in CompileErrors
  /\ last.reuse # {}
  /\ Len(last.queue) > 0
  /\ \E k \in DOMAIN cache : cache[k].hasFiles /\ FilesKept(cache, scratch, k)

\* Sequence p is an initial part of sequence q.
IsInitialPart(p, q) == Len(p) <= Len(q) /\ \A n \in 1..Len(p) : p[n] = q[n]

\* Module m has no entry in cache c, or one made from another content than
\* the one it has in tree.
NeverSeenOrChanged(c, tree, m) ==
  m \notin DOMAIN c \/ c[m].hash # <<hashFile(tree, Join(SrcDir, m))>>

\* C16 (the Transformer is invoked at most once per build, over the queued
\* subset): a write() creates at most one Container and calls
\* container.write at most once; it creates one exactly when modules are
\* queued; the module paths it passes to container.getModule are those of
\* modulesToCompile, in order, all of them when container.write is called;
\* and modulesToCompile is every module on a bundle miss, nothing on a bundle
\* hit, and in directory mode the modules that are new or changed.
C16_TransformerOnceOverQueue ==
  [][WriteStep
       => /\ last'.containers \in {0, 1}
          /\ last'.writes \in {0, 1}
          /\ last'.writes <= last'.containers
          /\ (last'.containers = 1) <=> (Len(last'.queue) > 0)
          /\ IsInitialPart(last'.handed, last'.queue)
          /\ (last'.writes = 1) => (last'.handed = last'.queue)
          /\ last'.outputIsFile
               => last'.queue =
                    IF /\ BaseName(Join(last'.destDir, output)) \in DOMAIN cache
                       /\ cache[BaseName(Join(last'.destDir, output))].hash
                            = hash(srcTree', last'.modules)
                    THEN <<>> ELSE last'.modules
          /\ (~last'.outputIsFile)
               => last'.queue = SelectSeq(last'.modules,
                                          LAMBDA m : NeverSeenOrChanged(cache, srcTree', m))]_vars

\* A directory-mode write() reused one module's entry and passed only the
\* other module to the one Container it created, whose write() it called.
C16_Witness ==
  /\ last.built /\ last.ok /\ ~last.outputIsFile
  /\ last.reuse # {}
  /\ Len(last.queue) = 1
  /\ last.handed = last.queue
  /\ last.containers = 1 /\ last.writes = 1

\* C17 (the Resolution Shim is consulted first): for every module a write()
\* loaded into its Container, the CacheResolver looked its path up in the
\* cache, and the module was made by the file resolver (it is not a
\* CachedModule) exactly when the CacheResolver had returned null for it:
\* the cache held no entry for the path with the file's hash.
C17_ShimConsultedFirst ==
  [][WriteStep
       => \A i \in 1..Len(last'.mods) :
            /\ Relative(SrcDir, last'.mods[i].path) \in last'.lookups
            /\ (~last'.mods[i].cached)
                 <=> ~(/\ Relative(SrcDir, last'.mods[i].path) \in DOMAIN cache
                       /\ cache[Relative(SrcDir, last'.mods[i].path)].hash
                            = <<hashFile(srcTree', last'.mods[i].path)>>)]_vars

\* A successful write() whose Container held a module read from its file
\* and a module the CacheResolver made from a cache entry.
C17_Witness ==
  /\ last.built /\ last.ok
  /\ \E i \in 1..Len(last.mods) : last.mods[i].cached
  /\ \E i \in 1..Len(last.mods) : ~last.mods[i].cached

\* C18 (the two granularities do not interfere in the store): after a
\* bundle-mode write() that compiled, the key of the bundle entry is not the
\* source-relative path of a module of the build, and every module the pass
\* compiled has, under its own path, an entry with its metadata and its
\* hash: the bundle entry has not replaced it.
C18_KeysDoNotInterfere ==
  (last.built /\ last.ok /\ last.outputIsFile /\ last.writes = 1)
    => /\ \A i \in 1..Len(last.modules) : last.modules[i] # BaseName(OutputPath)
       /\ \A i \in 1..Len(last.handed) :
            /\ last.handed[i] \in DOMAIN cache
            /\ cache[last.handed[i]].hasMeta
            /\ cache[last.handed[i]].hash
                 = <<hashFile(last.tree, Join(SrcDir, last.handed[i]))>>

\* The destination paths of the output files of the entries a write() reused.
ReusedPaths(destDir, outputIsFile, reuse) ==
  UNION {{Join(IF outputIsFile THEN DirName(Join(destDir, output)) ELSE Join(destDir, output),
               r.entry.outputFiles[n]) : n \in 1..Len(r.entry.outputFiles)} : r \in reuse}

\* C19 (pipeline order, as claimed): no module artifact is copied into the
\* destination before the compile stage has finished: when the compile
\* stage of a write() raises, the destination holds no compiled file.
C19_NoArtifactBeforeCompile ==
  [][(WriteStep /\ last'.containers = 1 /\ last'.err \in CompileErrors)
       => Artifacts(dest') = {}]_vars

\* C19 (pipeline order, amended): the cached files of the unchanged modules
\* are copied into the destination while write() classifies, before the
\* compile stage; the files of the modules compiled in the build are copied
\* only after container.write has returned.  So after a write() that made
\* a Container the files of the reused entries are in the destination; when
\* the compile stage raised no other compiled file is there; and when the
\* write() succeeded the files of the pass are there as well.
C19_OnlyReusedBeforeCompile ==
  [][(WriteStep /\ last'.containers = 1)
       => /\ ReusedPaths(last'.destDir, last'.outputIsFile, last'.reuse)
               \subseteq {f.path : f \in Artifacts(dest')}
          /\ {f.path : f \in Artifacts(dest')}
               \subseteq ReusedPaths(last'.destDir, last'.outputIsFile, last'.reuse)
                         \cup (IF last'.err \in CompileErrors THEN {}
                               ELSE PassPaths(last'.destDir, last'.outputIsFile, last'.queue))
          /\ last'.ok
               => PassPaths(last'.destDir, last'.outputIsFile, last'.queue)
                    \subseteq {f.path : f \in Artifacts(dest')}]_vars

\* A directory-mode write() copied the files of an unchanged module and
\* then failed in the compile stage.
C19_Witness ==
  /\ last.built /\ ~last.ok /\ last.containers = 1 /\ last.err \in CompileErrors
  /\ ~last.outputIsFile
  /\ last.reuse # {}
  /\ Artifacts(dest) # {}

\* The cache sub-dir of the latest compile pass.
LatestRegion == Join(CacheRoot(tmpCacheDir), <<Plain(ToString(cacheIndex - 1))>>)

\* C20 (entry refresh after compile): after a write() whose compile pass
\* succeeded, every module the pass visited, queued or loaded as an import
\* through the CacheResolver, has an entry under its source-relative path
\* with the hash the file has in that build and with the pass's cache
\* sub-dir as the location of its files.
C20_VisitedEntriesRefreshed ==
  (last.built /\ last.ok /\ last.writes = 1)
    => \A i \in 1..Len(last.mods) :
         /\ Relative(SrcDir, last.mods[i].path) \in DOMAIN cache
         /\ cache[Relative(SrcDir, last.mods[i].path)].hash
              = <<hashFile(last.tree, last.mods[i].path)>>
         /\ cache[Relative(SrcDir, last.mods[i].path)].hasFiles
         /\ cache[Relative(SrcDir, last.mods[i].path)].dir = LatestRegion

\* The cache sub-dir with index i of the cache dir t.
Region(t, i) == Join(CacheRoot(t), <<Plain(ToString(i))>>)

\* C21 (scratch regions are fresh and isolated): a write() allocates a
\* cache sub-dir exactly when it calls container.write, and then one only:
\* this._cacheIndex grows by one and the sub-dir has the old value as its
\* index; a write() that builds no Container allocates none.  Every file of
\* the scratch area lies in a sub-dir with an index below this._cacheIndex,
\* so the new sub-dir holds no file before the pass; the pass leaves every
\* file that was in the scratch area as it was and writes only below its own
\* sub-dir, so the output files of the entries the cache held are untouched.
C21_ScratchRegionsFresh ==
  [][WriteStep
       => /\ (last'.writes = 1) <=> (cacheIndex' = cacheIndex + 1)
          /\ (last'.writes = 0) <=> (cacheIndex' = cacheIndex)
          /\ (last'.containers = 0) => (cacheIndex' = cacheIndex /\ scratch' = scratch)
          /\ \A f \in scratch :
               /\ \E t \in 1..(MaxIndex + MaxEdits + 1) : \E i \in 0..(cacheIndex - 1) :
                    IsPrefix(Region(t, i), f.path)
               /\ ~IsPrefix(Region(tmpCacheDir', cacheIndex), f.path)
               /\ f \in scratch'
          /\ \A f \in scratch' \ scratch : IsPrefix(Region(tmpCacheDir', cacheIndex), f.path)
          /\ \A k \in DOMAIN cache : \A n \in 1..Len(cache[k].outputFiles) :
               FileAt(scratch', Join(cache[k].dir, cache[k].outputFiles[n]))
                 = FileAt(scratch, Join(cache[k].dir, cache[k].outputFiles[n]))]_vars

\* Two compile passes have written the same module into two sub-dirs, and
\* the files of both are in the scratch area.
C21_Witness ==
  /\ cacheIndex >= 2
  /\ \E f \in scratch : \E g \in scratch :
       /\ IsPrefix(Region(tmpCacheDir, 0), f.path)
       /\ IsPrefix(Region(tmpCacheDir, 1), g.path)
       /\ SubSeq(f.path, 4, Len(f.path)) = SubSeq(g.path, 4, Len(g.path))

\* C22 (zero queued modules is a no-op): a write() whose modulesToCompile
\* is empty creates no Container, calls neither container.getModule nor
\* container.write, allocates no cache sub-dir (this._cacheIndex and the
\* cache dir are unchanged), writes nothing to the scratch area and leaves
\* the cache as it was.
C22_EmptyQueueNoop ==
  [][(WriteStep /\ last'.queue = <<>>)
       => /\ last'.containers = 0
          /\ last'.writes = 0
          /\ last'.handed = <<>>
          /\ last'.mods = <<>>
          /\ last'.puts = {}
          /\ cacheIndex' = cacheIndex
          /\ tmpCacheDir' = tmpCacheDir
          /\ scratch' = scratch
          /\ cache' = cache]_vars

\* A successful write() found every module unchanged, over a cache filled by
\* an earlier compile pass.
C22_Witness ==
  /\ last.built /\ last.ok
  /\ last.queue = <<>>
  /\ Len(last.modules) > 0
  /\ cacheIndex >= 1
  /\ DOMAIN cache # {}

\* Entry e is the whole entry a pass in sub-dir region stores for module k
\* of tree: its hash and metadata, and in directory mode its files.
WholeModuleEntry(e, k, tree, outputIsFile, region) ==
  /\ e.hasMeta
  /\ e.hash = <<hashFile(tree, Join(SrcDir, k))>>
  /\ <<e.meta.stamp>> = e.hash
  /\ IF outputIsFile
     THEN ~e.hasFiles /\ e.dir = NoDir /\ e.outputFiles = <<>>
     ELSE e.hasFiles /\ e.dir = region /\ e.outputFiles = <<k, AddMap(k)>>

\* Entry e is the whole entry a pass in sub-dir region stores for the bundle
\* named k made of modules.
WholeBundleEntry(e, k, tree, modules, region) ==
  /\ ~e.hasMeta
  /\ e.hash = hash(tree, modules)
  /\ e.hasFiles /\ e.dir = region /\ e.outputFiles = <<k, AddMap(k)>>

\* C23 (cache entry lifecycle): in every step the keys of the cache are
\* kept, also those of modules that are no longer in the source tree; and
\* an entry is new or differs from what it was only after a write() whose
\* container.write returned, and it is then the whole entry that pass made
\* for a module it compiled, under the module's source-relative path, or
\* for the bundle, under the output file's name.
C23_EntryLifecycle ==
  [][/\ DOMAIN cache \subseteq DOMAIN cache'
     /\ \A k \in DOMAIN cache' :
          (k \notin DOMAIN cache \/ cache'[k] # cache[k])
            => /\ WriteStep
               /\ last'.writes = 1
               /\ last'.err \notin CompileErrors
               /\ k \in last'.puts
               /\ \/ /\ \E n \in 1..Len(last'.queue) : last'.queue[n] = k
                     /\ WholeModuleEntry(cache'[k], k, srcTree', last'.outputIsFile,
                                         Region(tmpCacheDir', cacheIndex))
                  \/ /\ last'.outputIsFile
                     /\ k = BaseName(Join(last'.destDir, output))
                     /\ WholeBundleEntry(cache'[k], k, srcTree', last'.modules,
                                         Region(tmpCacheDir', cacheIndex))]_vars

\* A successful write() of a tree from which a module was removed: the
\* module's entry is still in the cache.
C23_Witness ==
  /\ last.built /\ last.ok
  /\ \E m \in Modules : ~Present(last.tree, m) /\ ~Present(srcTree, m) /\ m \in DOMAIN cache

\* C24 (cached metadata is an immutable snapshot): every CachedModule of a
\* write() holds the metadata of its entry below exactly one wrapper, and
\* the entry itself is as it was unless the pass stored the module anew;
\* and after the write() the imports and exports stored in every entry are
\* unwrapped objects: the wrapper depth of stored metadata is 0, whatever
\* the number of rebuilds.
C24_MetadataSnapshot ==
  [][WriteStep
       => /\ \A i \in 1..Len(last'.mods) :
               last'.mods[i].cached
                 => /\ last'.mods[i].meta.wrap = 1
                    /\ last'.mods[i].meta.stamp
                         = cache[Relative(SrcDir, last'.mods[i].path)].meta.stamp
                    /\ Relative(SrcDir, last'.mods[i].path) \notin last'.puts
                         => cache'[Relative(SrcDir, last'.mods[i].path)]
                              = cache[Relative(SrcDir, last'.mods[i].path)]
          /\ \A k \in DOMAIN cache' : cache'[k].meta.wrap = 0]_vars

\* A successful write() stored anew the entry of a module it had loaded as
\* a CachedModule, and the entry holds unwrapped metadata.
C24_Witness ==
  /\ last.built /\ last.ok
  /\ \E i \in 1..Len(last.mods) :
       /\ last.mods[i].cached
       /\ Relative(SrcDir, last.mods[i].path) \in last.puts
       /\ Relative(SrcDir, last.mods[i].path) \in DOMAIN cache
       /\ cache[Relative(SrcDir, last.mods[i].path)].hasMeta
       /\ cache[Relative(SrcDir, last.mods[i].path)].meta.wrap = 0

\* The import path begins with a dot.
BeginsWithDot(p) ==
  Head(p) \in {DotSeg, UpSeg} \/ (Head(p).name = "" /\ Head(p) # EmptySeg)

\* The directory an import is resolved against.
ResolutionBase(p, m) == IF BeginsWithDot(p) /\ m # NoModule THEN DirName(m) ELSE SrcDir

\* The segments of import path p as they lie below directory d: "." and the
\* trailing separator dropped, ".." taken one directory up.
RECURSIVE Below(_, _)
Below(d, p) ==
  IF Len(p) = 0 THEN d
  ELSE IF Head(p) \in {DotSeg, EmptySeg} THEN Below(d, Tail(p))
  ELSE IF Head(p) = UpSeg THEN Below(SubSeq(d, 1, Len(d) - 1), Tail(p))
  ELSE Below(Append(d, Head(p)), Tail(p))

\* C25 (shim path resolution): resolvePath resolves an import path that
\* begins with a dot, when an importing module is given, against that
\* module's directory, and every other one against the source dir; it adds
\* ".js" to the resolved path exactly when the resolved path has not the
\* extension ".js", and then it adds it to the last segment and changes
\* nothing else; the result always has the extension ".js".
C25_ResolvePath ==
  resolution.done
    => \E located \in {Below(ResolutionBase(resolution.importedPath, resolution.fromModule),
                             resolution.importedPath)} :
         /\ ExtName(resolution.resolved) = "js"
         /\ Len(resolution.resolved) = Len(located)
         /\ SubSeq(resolution.resolved, 1, Len(located) - 1)
              = SubSeq(located, 1, Len(located) - 1)
         /\ resolution.resolved[Len(located)].name = located[Len(located)].name
         /\ resolution.resolved[Len(located)].exts
              = IF ExtName(located) = "js" THEN located[Len(located)].exts
                ELSE located[Len(located)].exts \o <<"js">>

\* "./bar" imported by foo/bar.js was resolved to foo/bar.js in the source
\* dir: against the importing module's directory, with ".js" added.
C25_Witness ==
  /\ resolution.done
  /\ resolution.importedPath = <<DotSeg, Plain("bar")>>
  /\ resolution.fromModule = Join(SrcDir, BAR_JS)
  /\ resolution.resolved = Join(SrcDir, BAR_JS)

\* Entry k of the cache passes its hash check against the source tree: a
\* module's entry against the module file, the bundle's against all modules.
PassesHashCheck(k) ==
  IF cache[k].hasMeta
  THEN cache[k].hash = <<hashFile(srcTree, Join(SrcDir, k))>>
  ELSE cache[k].hash = hash(srcTree, SelectSeq(walkSync(srcTree),
                                               LAMBDA e : Classify(e) = "module"))

\* C26 (scratch artifacts outlive the entries that reference them): in
\* every state, after any sequence of write() and cleanup() calls, every
\* cache entry with output files that passes its hash check has all its
\* output files in the scratch area, at the entry's dir.
C26_ArtifactsOutliveEntries ==
  \A k \in DOMAIN cache :
    (cache[k].hasFiles /\ PassesHashCheck(k)) => FilesKept(cache, scratch, k)

\* The bundle of the latest build is in its destination and has its entry
\* in the cache.
BundleProduced ==
  /\ IsFileIn(dest, OutputPath)
  /\ BaseName(OutputPath) \in DOMAIN cache
  /\ cache[BaseName(OutputPath)].hasFiles
  /\ cache[BaseName(OutputPath)].outputFiles
       = <<BaseName(OutputPath), AddMap(BaseName(OutputPath))>>

\* C27 (bundle output is always produced, as claimed): after every
\* successful bundle-mode write(), whatever the source tree holds, the
\* bundle file is in the destination at the output path and the cache holds
\* the bundle's entry.
C27_BundleAlwaysProduced ==
  (last.built /\ last.ok /\ last.outputIsFile) => BundleProduced

\* C27 (amended): after a successful bundle-mode write() of a tree with at
\* least one module file the bundle file is in the destination at the
\* output path and the cache holds the bundle's entry, whose hash is that of
\* the modules of the build; after one of a tree with no module file the
\* write() has made no Container and the destination holds no compiled
\* file.
C27_BundleProducedIfModules ==
  (last.built /\ last.ok /\ last.outputIsFile)
    => IF Len(last.modules) > 0
       THEN /\ BundleProduced
            /\ cache[BaseName(OutputPath)].hash = hash(last.tree, last.modules)
       ELSE /\ last.queue = <<>>
            /\ last.containers = 0
            /\ Artifacts(dest) = {}

\* A bundle-mode write() of a tree without module files succeeded and left
\* no bundle in the destination.
C27_Witness ==
  /\ last.built /\ last.ok /\ last.outputIsFile
  /\ last.modules = <<>>
  /\ ~IsFileIn(dest, OutputPath)

\* C28 (the compile pass does not race with the preparation of the scratch
\* target): whenever the mkdir(target) started by mkdirp(target) runs, a
\* write() ends as it ends when the mkdir has finished before
\* container.write(target) starts: the same success or error, the same
\* cache and the same destination; and no build leaves a directory at the
\* scratch path of the bundle file.
C28_MkdirNeverChangesWrite ==
  [][(edits' = edits /\ last'.mkdirLate)
       => /\ \E dec \in {Decide(walkSync(srcTree), TmpDestDir, cache, srcTree, scratch)} :
               dec.ok =>
                 \E r \in {compileAndCacheModules(dec.queue, Join(TmpDestDir, output),
                                                  TmpDestDir, cache, cacheIndex, tmpCacheDir,
                                                  scratch, dec.dest, srcTree, "none")} :
                   /\ last'.ok = r.ok
                   /\ last'.err = r.err
                   /\ cache' = r.cache
                   /\ dest' = r.dest
          /\ \A f \in scratch' : f.kind # "dir"]_vars

====
